---------------------------- MODULE Spec2Model ----------------------------
(***************************************************************************)
(* cero: the address-resolution and concurrent-dispatch pipeline.          *)
(*                                                                         *)
(* Strings are sequences of one-character strings.  Addresses are scaled:  *)
(* every dotted field of an IPv4 literal and every colon group of an IPv6  *)
(* literal of a CIDR carries ONE bit (the program's carry 8 and 16), so an *)
(* IPv4 address is a word of Bits4 bits (32 in the program) and an IPv6    *)
(* address a word of Bits6 = 2 * Half6 bits (128 and 64 in the program).   *)
(* The counters of expandCIDR keep that width and wrap (% 2^width).        *)
(***************************************************************************)
EXTENDS Integers, Sequences, FiniteSets, TLC

\* ------------------------------------------------------------- bounds
MaxArgs == 2            \* RawSpecs on the command line
MaxConcurrency == 2     \* the -c flag ranges over 0..MaxConcurrency
Bits4 == 3              \* width of the scaled IPv4 word (32 in the program)
Half6 == 2              \* width of the scaled lower half of an IPv6 word (64)

Bits6 == 2 * Half6      \* width of the scaled IPv6 word (128 in the program)

\* ------------------------------------------------------------ strings
HexChars == <<"0","1","2","3","4","5","6","7","8","9","a","b","c","d","e","f">>
Digits == {HexChars[i] : i \in 1..10}
HexDigits == {HexChars[i] : i \in 1..16}
Spaces == {" ", "\t", "\n", "\r"}

HexVal(c) == (CHOOSE i \in 1..16 : HexChars[i] = c) - 1

Pow2(n) == 2 ^ n

Contains(s, c) == \E i \in 1..Len(s) : s[i] = c

AllIn(s, set) == \A i \in 1..Len(s) : s[i] \in set

\* strings.Index / strings.LastIndex of a one-character pattern, 1-based, 0 if absent
IndexOf(s, c) ==
  IF Contains(s, c) THEN CHOOSE i \in 1..Len(s) : s[i] = c /\ \A j \in 1..(i-1) : s[j] # c
  ELSE 0

LastIndexOf(s, c) ==
  IF Contains(s, c) THEN CHOOSE i \in 1..Len(s) : s[i] = c /\ \A j \in (i+1)..Len(s) : s[j] # c
  ELSE 0

RECURSIVE SplitOn(_, _)
SplitOn(s, c) ==
  LET i == IndexOf(s, c)
  IN IF i = 0 THEN <<s>>
     ELSE <<SubSeq(s, 1, i-1)>> \o SplitOn(SubSeq(s, i+1, Len(s)), c)

RECURSIVE Join(_, _)
Join(parts, sep) ==
  IF parts = <<>> THEN <<>>
  ELSE IF Len(parts) = 1 THEN parts[1]
  ELSE parts[1] \o sep \o Join(Tail(parts), sep)

RECURSIVE Number(_, _)
Number(s, base) ==
  IF s = <<>> THEN 0
  ELSE Number(SubSeq(s, 1, Len(s)-1), base) * base + HexVal(s[Len(s)])

RECURSIVE Numeral(_, _)
Numeral(n, base) ==
  IF n < base THEN <<HexChars[n+1]>>
  ELSE Numeral(n \div base, base) \o <<HexChars[(n % base) + 1]>>

\* a variant that trims nothing
TrimSpaceNone(s) == s

RECURSIVE TrimSpace(_)
TrimSpace(s) ==
  IF s = <<>> THEN s
  ELSE IF s[1] \in Spaces THEN TrimSpace(Tail(s))
  ELSE IF s[Len(s)] \in Spaces THEN TrimSpace(SubSeq(s, 1, Len(s)-1))
  ELSE s

\* ------------------------------------------------- net: address literals
FAIL == <<"fail">>

\* net.parseIPv4 with n dotted fields of value at most maxv
ParseIPv4(s, n, maxv) ==
  LET f == SplitOn(s, ".")
      ok(x) == /\ x # <<>>
               /\ Len(x) <= 3
               /\ AllIn(x, Digits)
               /\ (Len(x) > 1 => x[1] # "0")
               /\ Number(x, 10) <= maxv
  IN IF Len(f) = n /\ \A i \in 1..n : ok(f[i])
     THEN [i \in 1..n |-> Number(f[i], 10)]
     ELSE FAIL

\* the index of the first "::" of s, 0 if there is none
Ellipsis(s) ==
  LET at(i) == s[i] = ":" /\ s[i+1] = ":"
  IN IF \E i \in 1..(Len(s)-1) : at(i)
     THEN CHOOSE i \in 1..(Len(s)-1) : at(i) /\ \A j \in 1..(i-1) : ~at(j)
     ELSE 0

\* net.parseIPv6 (no zone, no embedded dotted tail) with n groups of value at
\* most maxv; one "::" stands for at least one zero group
ParseIPv6(s, n, maxv) ==
  LET ok(x) == /\ x # <<>>
               /\ Len(x) <= 4
               /\ AllIn(x, HexDigits)
               /\ Number(x, 16) <= maxv
      groups(t) == IF t = <<>> THEN <<>> ELSE SplitOn(t, ":")
      good(g) == \A i \in 1..Len(g) : ok(g[i])
      vals(g) == [i \in 1..Len(g) |-> Number(g[i], 16)]
      e == Ellipsis(s)
      left == groups(SubSeq(s, 1, e-1))
      right == groups(SubSeq(s, e+2, Len(s)))
      whole == groups(s)
  IN IF e = 0
     THEN IF Len(whole) = n /\ good(whole) THEN vals(whole) ELSE FAIL
     ELSE IF good(left) /\ good(right) /\ Len(left) + Len(right) < n
          THEN vals(left) \o [i \in 1..(n - Len(left) - Len(right)) |-> 0] \o vals(right)
          ELSE FAIL

\* a variant that splits at the last colon, whatever is after it
portMatchAnyTail(addr) ==
  IF LastIndexOf(addr, ":") > 0
  THEN [nil |-> FALSE, g1 |-> SubSeq(addr, 1, LastIndexOf(addr, ":") - 1),
        g3 |-> SubSeq(addr, LastIndexOf(addr, ":") + 1, Len(addr))]
  ELSE [nil |-> FALSE, g1 |-> addr, g3 |-> <<>>]

\* a variant that never finds a port
portMatchNone(addr) == [nil |-> FALSE, g1 |-> addr, g3 |-> <<>>]

\* a variant that takes no string for an address
ParseIPNever(s) == FALSE

\* a variant that sees no brackets
bracketMatchNever(host) == FALSE

\* net.ParseIP(s) != nil, at the program's sizes
ParseIP(s) == ParseIPv4(s, 4, 255) # FAIL \/ ParseIPv6(s, 8, 65535) # FAIL


\* -------------------------------------------------------------- words
RECURSIVE Xor(_, _, _)
Xor(a, b, w) ==
  IF w = 0 THEN 0
  ELSE 2 * Xor(a \div 2, b \div 2, w - 1) + ((a + b) % 2)

\* binary.BigEndian.Uint32/Uint64 of the address bytes: one bit per field here
Word(fields) ==
  LET RECURSIVE W(_)
      W(k) == IF k = 0 THEN 0 ELSE 2 * W(k - 1) + fields[k]
  IN W(Len(fields))

\* binary.Write(buf, binary.BigEndian, word): the w fields of a word
Fields(word, w) == [i \in 1..w |-> (word \div Pow2(w - i)) % 2]

\* net.CIDRMask(ones, bits) as a word
CIDRMask(ones, bits) == Pow2(bits) - Pow2(bits - ones)

\* ------------------------------------------------------ net: rendering
\* net.IP.String() of a 4-byte address
IPv4String(fields) == Join([i \in 1..Len(fields) |-> Numeral(fields[i], 10)], <<".">>)

\* net.IP.String() of a 16-byte address: the leftmost longest run of two or
\* more zero groups is written "::"
IPv6String(g) ==
  LET n == Len(g)
      run(j) == IF g[j] # 0 THEN 0
                ELSE CHOOSE k \in 1..(n - j + 1) :
                       /\ \A i \in j..(j + k - 1) : g[i] = 0
                       /\ (j + k <= n => g[j + k] # 0)
      best == CHOOSE j \in 1..n : \A i \in 1..n : run(i) < run(j) \/ (run(i) = run(j) /\ j <= i)
      hex(a, b) == Join([i \in 1..(b - a + 1) |-> Numeral(g[a + i - 1], 16)], <<":">>)
  IN IF run(best) < 2 THEN hex(1, n)
     ELSE hex(1, best - 1) \o <<":", ":">> \o hex(best + run(best), n)

\* net.JoinHostPort
JoinHostPort(host, port) ==
  IF Contains(host, ":") \/ Contains(host, "%")
  THEN <<"[">> \o host \o <<"]", ":">> \o port
  ELSE host \o <<":">> \o port

\* ------------------------------------------------------- net.ParseCIDR
\* The IPNet of a CIDR literal: the masked address, the mask's ones and bits.
IPNet(ip, n, bits) ==
  IF n > bits THEN [ok |-> FALSE]
  ELSE [ok |-> TRUE, ip |-> ip - (ip % Pow2(bits - n)), ones |-> n, bits |-> bits]

ParseCIDRParts(v4, v6, mask) ==
  IF (v4 = FAIL /\ v6 = FAIL) \/ mask = <<>> \/ Len(mask) > 3 \/ ~AllIn(mask, Digits)
  THEN [ok |-> FALSE]
  ELSE IF v4 # FAIL THEN IPNet(Word(v4), Number(mask, 10), Bits4)
  ELSE IPNet(Word(v6), Number(mask, 10), Bits6)

ParseCIDRAt(s, i) ==
  IF i = 0 THEN [ok |-> FALSE]
  ELSE ParseCIDRParts(ParseIPv4(SubSeq(s, 1, i - 1), Bits4, 1),
                      ParseIPv6(SubSeq(s, 1, i - 1), Bits6, 1),
                      SubSeq(s, i + 1, Len(s)))

ParseCIDR(s) == ParseCIDRAt(s, IndexOf(s, "/"))

\* ------------------------------------------------------------ util.go
\* a variant that takes no host for a block
isCIDRNever(value) == FALSE

isCIDR(value) == Contains(value, "/")

\* portRegexp.FindStringSubmatch(addr) for ^(.*?)(:(\d+))?$ : no match when
\* addr holds a newline, else the lazy first group and the digits
portMatch(addr) ==
  LET k == LastIndexOf(addr, ":")
      tail == SubSeq(addr, k + 1, Len(addr))
      hasPort == k > 0 /\ tail # <<>> /\ AllIn(tail, Digits)
  IN IF Contains(addr, "\n") THEN [nil |-> TRUE]
     ELSE IF hasPort THEN [nil |-> FALSE, g1 |-> SubSeq(addr, 1, k - 1), g3 |-> tail]
     ELSE [nil |-> FALSE, g1 |-> addr, g3 |-> <<>>]

\* bracketRegexp.MatchString(host) for ^\[.*\]$
bracketMatch(host) ==
  Len(host) >= 2 /\ host[1] = "[" /\ host[Len(host)] = "]" /\ ~Contains(host, "\n")

PortDigitsMax == 4

\* a variant that takes every host with a colon whole, port and all
splitGroupsWhole(host, port) ==
  IF Contains(host, ":") /\ port # <<>>
  THEN [panic |-> FALSE, host |-> host \o <<":">> \o port, port |-> <<>>]
  ELSE [panic |-> FALSE, host |-> host, port |-> port]

\* splitHostPort from the two groups of the match on
splitGroups(host, port) ==
  IF Contains(host, ":") /\ bracketMatch(host)
    THEN [panic |-> FALSE, host |-> SubSeq(host, 2, Len(host) - 1), port |-> port]
  ELSE IF port = <<>> THEN [panic |-> FALSE, host |-> host, port |-> port]
  ELSE IF isCIDR(host) THEN [panic |-> FALSE, host |-> host, port |-> port]
  ELSE IF Contains(host, ":") /\ Len(port) <= PortDigitsMax
            /\ ParseIP(host \o <<":">> \o port)
    THEN [panic |-> FALSE, host |-> host \o <<":">> \o port, port |-> <<>>]
  ELSE [panic |-> FALSE, host |-> host, port |-> port]

\* splitHostPort from the match on: portMatch[1] of a nil match panics
splitMatch(m) == IF m.nil THEN [panic |-> TRUE] ELSE splitGroups(m.g1, m.g3)

splitHostPort(addr) == splitMatch(portMatch(addr))


\* ----------------------------------------------------- expandCIDR (pure)
\* ^mask32 / ^mask64: the complement of the mask word that the loop counts up to
NotMask(ones, bits, w) == (Pow2(w) - 1) - (CIDRMask(ones, bits) % Pow2(w))

\* a variant that ends the loop after the first address
LoopCondOnce(mask, nmask) == mask = 0

\* the loop condition of both producers: mask <= ^mask32, mask <= ^mask64
LoopCond(mask, nmask) == mask <= nmask

\* a variant that works out an address ahead of the one it hands over
IncrAhead(mask, w) == (mask + 2) % Pow2(w)

\* mask++ on a uint32 / uint64
Incr(mask, w) == (mask + 1) % Pow2(w)

\* the word width of a producer's counter
Width(fam) == IF fam = 4 THEN Bits4 ELSE Half6

\* the address a producer yields for its counter: net.IP(buf.Bytes()).String()
Yield(p) ==
  IF p.fam = 4
  THEN IPv4String(Fields(Xor(p.ip, p.mask, Bits4), Bits4))
  ELSE IPv6String(Fields(p.hi, Half6) \o Fields(Xor(p.ip, p.mask, Half6), Half6))

NoProducer == [pc |-> "none"]

\* expandCIDR up to the start of its goroutine: the error, or the producer
\* a variant that takes every mask
TooWideNever(ones, bits) == FALSE

\* mBits == 128 && mOnes < 64
TooWide(ones, bits) == bits = Bits6 /\ ones < Half6

expandNet(n) ==
  IF ~n.ok THEN [err |-> "parse", chan |-> NoProducer]
  ELSE IF TooWide(n.ones, n.bits) THEN [err |-> "range", chan |-> NoProducer]
  ELSE IF n.bits = Bits4
    THEN [err |-> "nil",
          chan |-> [pc |-> "loop", fam |-> 4, hi |-> 0, ip |-> n.ip,
                    nmask |-> NotMask(n.ones, Bits4, Bits4), mask |-> 0, val |-> <<>>]]
  ELSE [err |-> "nil",
        chan |-> [pc |-> "loop", fam |-> 6, hi |-> n.ip \div Pow2(Half6),
                  ip |-> n.ip % Pow2(Half6),
                  nmask |-> NotMask(n.ones, Bits6, Half6), mask |-> 0, val |-> <<>>]]

expandCIDR(CIDR) == expandNet(ParseCIDR(CIDR))

\* ------------------------------------------------------------- inputs
Port443 == <<"4", "4", "3">>
Port8443 == <<"8", "4", "4", "3">>
PortLists == {<<Port443, Port8443>>}

Ones4 == [i \in 1..Bits4 |-> 1]
Zero4 == [i \in 1..Bits4 |-> 0]
Slash(n) == <<"/">> \o Numeral(n, 10)

TokHost == <<"a", ".", "b">>
TokHostPort == TokHost \o <<":">> \o Port8443
TokNet4 == IPv4String(Ones4) \o Slash(Bits4 - 1)
TokWrap4 == IPv4String(Zero4) \o Slash(0) \o <<":">> \o Port8443
TokBad4 == <<" ">> \o IPv4String(Ones4) \o Slash(Bits4 + 1) \o <<" ">>
TokWrap6 == <<"1", ":", ":">> \o Slash(Half6)
TokBlank == <<" ">>

Tokens == {TokHost, TokHostPort, TokNet4, TokWrap4, TokBad4, TokWrap6, TokBlank}

WrapTokens == {TokWrap4, TokWrap6}

\* RawSpecs for a run on a single one: blocks in brackets, with and without a
\* port, in both families, and what looks like them
Loop6 == <<":", ":", "1">>
Bracketed(h) == <<"[">> \o h \o <<"]">>
TokNet6 == Loop6 \o Slash(Bits6 - 1)
TokWide6 == Loop6 \o Slash(Half6 - 1)

ItemTokens ==
  {TokHost, TokHostPort, TokBlank, TokNet4, TokBad4, TokNet6, TokWide6,
   TokNet4 \o <<":">> \o Port8443,
   TokNet6 \o <<":">> \o Port8443,
   Bracketed(TokNet6),
   Bracketed(TokNet6) \o <<":">> \o Port8443,
   Bracketed(TokNet4) \o <<":">> \o Port8443,
   Bracketed(TokHost) \o <<":">> \o Port8443,
   Loop6 \o <<":">> \o Port443,
   TokHost \o Slash(1),
   TokNet6 \o <<":">> \o Port8443 \o <<"/">>}

\* A block that covers its whole address space is never expanded to its end,
\* so nothing after it is read: it comes last, and it is run by one worker.
ArgLists ==
  {a \in UNION {[1..n -> Tokens] : n \in 0..MaxArgs} :
     \A i \in 1..(Len(a) - 1) : a[i] \notin WrapTokens}
HasWrap(a) == \E i \in 1..Len(a) : a[i] \in WrapTokens

\* ------------------------------------------------------------ history
\* bags are functions from their elements to positive counts
EmptyBag == <<>>
Count(b, x) == IF x \in DOMAIN b THEN b[x] ELSE 0
BagAdd(b, x) == IF x \in DOMAIN b THEN [b EXCEPT ![x] = @ + 1] ELSE b @@ (x :> 1)
BagRemove(b, x) ==
  IF Count(b, x) > 1 THEN [b EXCEPT ![x] = @ - 1]
  ELSE [y \in DOMAIN b \ {x} |-> b[y]]
\* a bag that tells "once" from "more than once"
BagAddOnce(b, x) == IF x \in DOMAIN b THEN [b EXCEPT ![x] = 2] ELSE b @@ (x :> 1)


\* -------------------------------------------------------------- state
VARIABLES
  args,             \* flag.Args(): the RawSpecs
  concurrency,      \* -c
  defaultPorts,     \* -p, split on ","
  verbose,          \* -v
  onlyValidDomainNames, \* -d
  mainpc,           \* main: "args" | "fail" | "range" | "push" | "wait" | "returned"
  argi,             \* main: index of the RawSpec being processed
  item,             \* processInputItem: input, host, ports, porti, cidr, err
  ips,              \* the producer goroutine of expandCIDR and its channel
  chanInputClosed,  \* close(chanInput) has run
  chanResultClosed, \* close(chanResult) has run
  wpc,              \* worker: "recv" | "fetch" | "send" | "done"
  wres,             \* worker: its procResult
  sinkpc,           \* result-processing goroutine: "recv" | "done"
  panic,            \* "" or the cause of the panic that ended the process
  pushedBy,         \* history: per RawSpec, the Targets sent on chanInput (once / more)
  ungrabbed,        \* history: Targets sent on chanInput, grabCert not yet called
  owed,             \* history: Targets sent on chanInput, result not yet at the sink
  stray,            \* history: a grabCert call or a result that no Target accounts for
  nResults,         \* history: the number of results the sink received (saturating)
  failures,         \* history: per RawSpec, the results sent by processInputItem
  got               \* of a function run alone: what it returned or yielded so far

vars == <<args, concurrency, defaultPorts, verbose, onlyValidDomainNames, mainpc, argi, item, ips, chanInputClosed,
          chanResultClosed, wpc, wres, sinkpc, panic, pushedBy, ungrabbed, owed,
          stray, nResults, failures, got>>

flags == <<args, concurrency, defaultPorts, verbose, onlyValidDomainNames>>
history == <<pushedBy, ungrabbed, owed, stray, nResults, failures>>

\* a variant that starts one worker when the setting asks for none
WorkersAtLeastOne == 1..(IF concurrency < 1 THEN 1 ELSE concurrency)

\* the worker goroutines: for i := 0; i < concurrency; i++
Workers == 1..concurrency

NoItem == [input |-> <<>>, host |-> <<>>, ports |-> <<>>, porti |-> 0, cidr |-> FALSE,
           err |-> "nil"]
NoResult == [addr |-> <<>>, err |-> "nil"]

Init ==
  /\ args \in ArgLists
  /\ concurrency \in 0..MaxConcurrency
  /\ HasWrap(args) => concurrency <= 1
  /\ defaultPorts \in PortLists
  /\ verbose = FALSE
  /\ onlyValidDomainNames = FALSE
  /\ mainpc = "args"
  /\ argi = 1
  /\ item = NoItem
  /\ ips = NoProducer
  /\ chanInputClosed = FALSE
  /\ chanResultClosed = FALSE
  /\ wpc = [w \in Workers |-> "recv"]
  /\ wres = [w \in Workers |-> NoResult]
  /\ sinkpc = "recv"
  /\ panic = ""
  /\ pushedBy = [i \in 1..Len(args) |-> EmptyBag]
  /\ ungrabbed = EmptyBag
  /\ owed = EmptyBag
  /\ stray = FALSE
  /\ nResults = 0
  /\ failures = [i \in 1..Len(args) |-> <<>>]
  /\ got = <<>>

Running == panic = ""

\* the count of results stops above the count any run that ends is to give
ResultCap == 4 * MaxArgs + 1
CountUp(n) == IF n < ResultCap THEN n + 1 ELSE n

\* ------------------------------------------------- processInputItem
\* a variant that applies the default ports to every RawSpec
PortsForDefault(port) == defaultPorts

\* the ports list to use
PortsFor(port) == IF port = <<>> THEN defaultPorts ELSE <<port>>

\* a variant that drops the cause of the failure
FailureResultBare(input, err) == [addr |-> input, err |-> "nil"]

\* the result processInputItem sends when the expansion fails
FailureResult(input, err) == [addr |-> input, err |-> err]

\* a variant that gives up the input once an expansion has failed
AfterItemAbort(i) == IF mainpc = "fail" THEN Len(args) + 1 ELSE i + 1

\* the RawSpec main turns to when processInputItem returns from RawSpec i
AfterItem(i) == i + 1

\* what processInputItem computes from its argument before it touches a
\* channel: the trimmed input, the split, whether the host is a CIDR, and for
\* a CIDR what expandCIDR returns
ParsedCIDR(input, sp, e) ==
  [input |-> input, empty |-> FALSE, panic |-> FALSE, host |-> sp.host, port |-> sp.port,
   cidr |-> TRUE, err |-> e.err, chan |-> e.chan]

ParsedSplit(input, sp) ==
  IF sp.panic THEN [input |-> input, empty |-> FALSE, panic |-> TRUE]
  ELSE IF isCIDR(sp.host) THEN ParsedCIDR(input, sp, expandCIDR(sp.host))
  ELSE [input |-> input, empty |-> FALSE, panic |-> FALSE, host |-> sp.host,
        port |-> sp.port, cidr |-> FALSE]

ParsedInput(input) ==
  IF input = <<>> THEN [input |-> input, empty |-> TRUE]
  ELSE ParsedSplit(input, splitHostPort(input))

Parsed(raw) == ParsedInput(TrimSpace(raw))

\* the same for every RawSpec of the runs, worked out once
ParsedArgs == [raw \in Tokens \cup ItemTokens |-> Parsed(raw)]

\* processInputItem from its entry to its first channel operation
MainItem ==
  /\ Running /\ mainpc = "args" /\ argi <= Len(args)
  /\ LET p == ParsedArgs[args[argi]]
     IN IF p.empty
        THEN /\ argi' = AfterItem(argi)
             /\ UNCHANGED <<mainpc, item, ips, panic>>
        ELSE IF p.panic
        THEN /\ panic' = "index out of range"
             /\ UNCHANGED <<mainpc, argi, item, ips>>
        ELSE IF p.cidr
        THEN /\ item' = [input |-> p.input, host |-> <<>>, ports |-> PortsFor(p.port),
                         porti |-> 0, cidr |-> TRUE, err |-> p.err]
             /\ ips' = p.chan
             /\ mainpc' = IF p.err # "nil" THEN "fail" ELSE "range"
             /\ UNCHANGED <<argi, panic>>
        ELSE /\ item' = [input |-> p.input, host |-> p.host, ports |-> PortsFor(p.port),
                         porti |-> 1, cidr |-> FALSE, err |-> "nil"]
             /\ mainpc' = "push"
             /\ UNCHANGED <<argi, ips, panic>>
  /\ UNCHANGED <<flags, chanInputClosed, chanResultClosed, wpc, wres, sinkpc, history, got>>

\* chanResult <- &procResult{addr: input, err: err}; return
MainFail ==
  /\ Running /\ mainpc = "fail"
  /\ IF chanResultClosed
     THEN /\ panic' = "send on closed channel"
          /\ UNCHANGED <<mainpc, argi, item, nResults, failures>>
     ELSE /\ sinkpc = "recv"
          /\ LET r == FailureResult(item.input, item.err)
             IN /\ nResults' = CountUp(nResults)
                /\ failures' = [failures EXCEPT ![argi] = Append(@, r)]
          /\ argi' = AfterItem(argi)
          /\ mainpc' = "args"
          /\ item' = NoItem
          /\ UNCHANGED panic
  /\ UNCHANGED <<flags, ips, chanInputClosed, chanResultClosed, wpc, wres, sinkpc,
                 pushedBy, ungrabbed, owed, stray, got>>

\* the producer's loop test and body up to its send; close(outputChan) after the loop
ProdStep ==
  /\ Running /\ ips.pc = "loop"
  /\ ips' = IF LoopCond(ips.mask, ips.nmask)
            THEN [ips EXCEPT !.pc = "send", !.val = Yield(ips)]
            ELSE [ips EXCEPT !.pc = "done"]
  /\ UNCHANGED <<flags, mainpc, argi, item, chanInputClosed, chanResultClosed, wpc, wres,
                 sinkpc, panic, history, got>>

\* for ip := range ips: the hand-off of one address on the unbuffered channel
MainRange ==
  /\ Running /\ mainpc = "range" /\ ips.pc = "send"
  /\ item' = [item EXCEPT !.host = ips.val, !.porti = 1]
  /\ ips' = [ips EXCEPT !.pc = "loop", !.mask = Incr(ips.mask, Width(ips.fam)), !.val = <<>>]
  /\ mainpc' = "push"
  /\ UNCHANGED <<flags, argi, chanInputClosed, chanResultClosed, wpc, wres, sinkpc, panic,
                 history, got>>

\* for ip := range ips: the channel is closed, processInputItem returns
MainRangeEnd ==
  /\ Running /\ mainpc = "range" /\ ips.pc = "done"
  /\ ips' = NoProducer
  /\ item' = NoItem
  /\ argi' = AfterItem(argi)
  /\ mainpc' = "args"
  /\ UNCHANGED <<flags, chanInputClosed, chanResultClosed, wpc, wres, sinkpc, panic,
                 history, got>>

\* a variant in which a worker takes a Target whatever it is doing
ReceivingAlways(w) == TRUE

\* worker w waits in for addr := range chanInput
Receiving(w) == wpc[w] = "recv"

\* chanInput <- net.JoinHostPort(host, port), received by worker w
MainPush(w) ==
  /\ Running /\ mainpc = "push" /\ Receiving(w)
  /\ LET addr == JoinHostPort(item.host, item.ports[item.porti])
     IN /\ wres' = [wres EXCEPT ![w] = [addr |-> addr, err |-> "nil"]]
        /\ pushedBy' = [pushedBy EXCEPT ![argi] = BagAddOnce(@, addr)]
        /\ ungrabbed' = BagAdd(ungrabbed, addr)
        /\ owed' = BagAdd(owed, addr)
  /\ wpc' = [wpc EXCEPT ![w] = "fetch"]
  /\ IF item.porti < Len(item.ports)
     THEN /\ item' = [item EXCEPT !.porti = @ + 1]
          /\ UNCHANGED <<mainpc, argi>>
     ELSE IF item.cidr
     THEN /\ mainpc' = "range"
          /\ UNCHANGED <<item, argi>>
     ELSE /\ mainpc' = "args"
          /\ argi' = AfterItem(argi)
          /\ item' = NoItem
  /\ UNCHANGED <<flags, ips, chanInputClosed, chanResultClosed, sinkpc, panic, stray,
                 nResults, failures, got>>

\* close(chanInput)
MainClose ==
  /\ Running /\ mainpc = "args" /\ argi > Len(args)
  /\ chanInputClosed' = TRUE
  /\ mainpc' = "wait"
  /\ UNCHANGED <<flags, argi, item, ips, chanResultClosed, wpc, wres, sinkpc, panic,
                 history, got>>

\* outputWG.Wait() and the return of main
MainReturn ==
  /\ Running /\ mainpc = "wait" /\ sinkpc = "done"
  /\ mainpc' = "returned"
  /\ UNCHANGED <<flags, argi, item, ips, chanInputClosed, chanResultClosed, wpc, wres,
                 sinkpc, panic, history, got>>

\* ------------------------------------------------------------ workers
\* a variant that loses the Target's address
WorkerResultBlank(addr, err) == [addr |-> <<>>, err |-> err]

\* the worker's result once grabCert has returned
WorkerResult(addr, err) == [addr |-> addr, err |-> err]

\* a variant that calls grabCert again when it failed
AfterGrabRetry(err) == IF err = "nil" THEN "send" ELSE "fetch"

\* where the worker goes once grabCert has returned
AfterGrab(err) == "send"

\* result.names, result.err = grabCert(addr, ...): it fails or not
WorkerGrab(w) ==
  /\ Running /\ wpc[w] = "fetch"
  /\ \E err \in {"nil", "dial"} :
       /\ wres' = [wres EXCEPT ![w] = WorkerResult(@.addr, err)]
       /\ wpc' = [wpc EXCEPT ![w] = AfterGrab(err)]
  /\ IF Count(ungrabbed, wres[w].addr) > 0
     THEN ungrabbed' = BagRemove(ungrabbed, wres[w].addr) /\ UNCHANGED stray
     ELSE stray' = TRUE /\ UNCHANGED ungrabbed
  /\ UNCHANGED <<flags, mainpc, argi, item, ips, chanInputClosed, chanResultClosed, sinkpc,
                 panic, pushedBy, owed, nResults, failures, got>>

\* chanResult <- result, received by the sink
WorkerSend(w) ==
  /\ Running /\ wpc[w] = "send"
  /\ IF chanResultClosed
     THEN /\ panic' = "send on closed channel"
          /\ UNCHANGED <<wpc, wres, owed, stray, nResults>>
     ELSE /\ sinkpc = "recv"
          /\ nResults' = CountUp(nResults)
          /\ IF Count(owed, wres[w].addr) > 0
             THEN owed' = BagRemove(owed, wres[w].addr) /\ UNCHANGED stray
             ELSE stray' = TRUE /\ UNCHANGED owed
          /\ wpc' = [wpc EXCEPT ![w] = "recv"]
          /\ wres' = [wres EXCEPT ![w] = NoResult]
          /\ UNCHANGED panic
  /\ UNCHANGED <<flags, mainpc, argi, item, ips, chanInputClosed, chanResultClosed, sinkpc,
                 pushedBy, ungrabbed, failures, got>>

\* the range over chanInput ends: workersWG.Done()
WorkerExit(w) ==
  /\ Running /\ wpc[w] = "recv" /\ chanInputClosed
  /\ wpc' = [wpc EXCEPT ![w] = "done"]
  /\ UNCHANGED <<flags, mainpc, argi, item, ips, chanInputClosed, chanResultClosed, wres,
                 sinkpc, panic, history, got>>

\* a variant of the closer that does not wait for the workers
WorkersDoneEarly == TRUE

\* workersWG.Wait() returns
WorkersDone == \A w \in Workers : wpc[w] = "done"

\* close(chanResult)
CloseResult ==
  /\ Running /\ ~chanResultClosed /\ WorkersDone
  /\ chanResultClosed' = TRUE
  /\ UNCHANGED <<flags, mainpc, argi, item, ips, chanInputClosed, wpc, wres, sinkpc, panic,
                 history, got>>

\* the range over chanResult ends: outputWG.Done()
SinkExit ==
  /\ Running /\ sinkpc = "recv" /\ chanResultClosed
  /\ sinkpc' = "done"
  /\ UNCHANGED <<flags, mainpc, argi, item, ips, chanInputClosed, chanResultClosed, wpc,
                 wres, panic, history, got>>

Next ==
  \/ MainItem
  \/ MainFail
  \/ ProdStep
  \/ MainRange
  \/ MainRangeEnd
  \/ \E w \in Workers : MainPush(w)
  \/ MainClose
  \/ MainReturn
  \/ \E w \in Workers : WorkerGrab(w)
  \/ \E w \in Workers : WorkerSend(w)
  \/ \E w \in Workers : WorkerExit(w)
  \/ CloseResult
  \/ SinkExit

Spec == Init /\ [][Next]_vars

\* scheduling: every goroutine that can take a step eventually takes one, and
\* every grabCert call returns
FairSpec ==
  /\ Spec
  /\ WF_vars(MainItem \/ MainFail \/ MainRange \/ MainRangeEnd \/ MainClose \/ MainReturn
               \/ \E w \in Workers : MainPush(w))
  /\ WF_vars(ProdStep)
  /\ \A w \in 1..MaxConcurrency :
       WF_vars(w \in Workers /\ (WorkerGrab(w) \/ WorkerSend(w) \/ WorkerExit(w)))
  /\ WF_vars(CloseResult)
  /\ WF_vars(SinkExit)

\* ------------------------------------------- expandCIDR, ranged over alone
\* Test_expandCIDR: one CIDR literal is expanded and its channel is ranged over;
\* the range is left once maxCount addresses were received.
Bit4s == [1..Bits4 -> {0, 1}]
Bit6s == [1..Bits6 -> {0, 1}]

\* literals that are no CIDR: no mask, an empty or non-numeric mask, an empty
\* field, brackets
NoCIDRLits ==
  {IPv4String(Ones4), <<":", ":", "1">>, <<":", ":", "/">>, <<":", ":", "/", "x">>,
   <<"1", ".", ".", "1", "/", "0">>, <<"[", ":", ":", "]">> \o Slash(Bits6),
   <<":", ":", "1", ":">> \o Slash(Half6)}

CIDRLits ==
  {IPv4String(f) \o Slash(p) : f \in Bit4s, p \in 0..(Bits4 + 1)}
    \cup {IPv6String(g) \o Slash(p) : g \in Bit6s, p \in 0..(Bits6 + 1)}
    \cup NoCIDRLits

\* more than the largest block of either family holds
maxCount == Pow2(Bits4) + Pow2(Half6) + 1

InitCIDR ==
  /\ args \in {<<l>> : l \in CIDRLits}
  /\ concurrency = 0
  /\ defaultPorts = <<>>
  /\ verbose = FALSE
  /\ onlyValidDomainNames = FALSE
  /\ mainpc = "call"
  /\ argi = 1
  /\ item = NoItem
  /\ ips = NoProducer
  /\ chanInputClosed = FALSE
  /\ chanResultClosed = FALSE
  /\ wpc = <<>>
  /\ wres = <<>>
  /\ sinkpc = "recv"
  /\ panic = ""
  /\ pushedBy = <<EmptyBag>>
  /\ ungrabbed = EmptyBag
  /\ owed = EmptyBag
  /\ stray = FALSE
  /\ nResults = 0
  /\ failures = << <<>> >>
  /\ got = <<>>

pipeline == <<flags, argi, chanInputClosed, chanResultClosed, wpc, wres, sinkpc, panic,
              history>>

\* got, err := expandCIDR(tt.args.CIDR)
CallExpand ==
  /\ mainpc = "call"
  /\ LET e == expandCIDR(args[1])
     IN /\ item' = [item EXCEPT !.input = args[1], !.cidr = TRUE, !.err = e.err]
        /\ ips' = e.chan
        /\ mainpc' = IF e.err # "nil" THEN "failed" ELSE "drain"
  /\ UNCHANGED <<pipeline, got>>

\* for ip := range got: one address is received
DrainRecv ==
  /\ mainpc = "drain" /\ ips.pc = "send"
  /\ got' = Append(got, ips.val)
  /\ ips' = [ips EXCEPT !.pc = "loop", !.mask = Incr(ips.mask, Width(ips.fam)), !.val = <<>>]
  /\ mainpc' = IF Len(got') = maxCount THEN "broken" ELSE "drain"
  /\ UNCHANGED <<pipeline, item>>

\* for ip := range got: the channel is closed
DrainEnd ==
  /\ mainpc = "drain" /\ ips.pc = "done"
  /\ mainpc' = "drained"
  /\ UNCHANGED <<pipeline, item, ips, got>>

NextCIDR ==
  \/ CallExpand
  \/ ProdStep
  \/ DrainRecv
  \/ DrainEnd

SpecCIDR == InitCIDR /\ [][NextCIDR]_vars

\* if count == maxCount { break }, for a maxCount of any value: the consumer
\* leaves the range after an address, whatever is left of the block
DrainBreak ==
  /\ mainpc = "drain" /\ got # <<>>
  /\ mainpc' = "broken"
  /\ UNCHANGED <<pipeline, item, ips, got>>

NextStop ==
  \/ CallExpand
  \/ ProdStep
  \/ DrainRecv
  \/ DrainEnd
  \/ DrainBreak

\* expandCIDR with a consumer that may stop early
SpecStop == InitCIDR /\ [][NextStop]_vars

\* ------------------------------------------------- main on one RawSpec
\* main with a single argument and one worker or more
InitItem ==
  /\ args \in {<<t>> : t \in ItemTokens}
  /\ concurrency \in 1..MaxConcurrency
  /\ defaultPorts \in PortLists
  /\ verbose = FALSE
  /\ onlyValidDomainNames = FALSE
  /\ mainpc = "args"
  /\ argi = 1
  /\ item = NoItem
  /\ ips = NoProducer
  /\ chanInputClosed = FALSE
  /\ chanResultClosed = FALSE
  /\ wpc = [w \in Workers |-> "recv"]
  /\ wres = [w \in Workers |-> NoResult]
  /\ sinkpc = "recv"
  /\ panic = ""
  /\ pushedBy = <<EmptyBag>>
  /\ ungrabbed = EmptyBag
  /\ owed = EmptyBag
  /\ stray = FALSE
  /\ nResults = 0
  /\ failures = << <<>> >>
  /\ got = <<>>

SpecItem == InitItem /\ [][Next]_vars

\* ---------------------------------------------- splitHostPort, run alone
\* Test_splitHostPort: splitHostPort is called on one string.
V4 == <<"1", ".", "1", ".", "1", ".", "1">>
Ones6(n) == Join([i \in 1..n |-> <<"1">>], <<":">>)
Hex6 == <<"f", "e", "8", "0", ":", ":", "1">>

\* IPv6 addresses, well-formed by the way they are written
Addrs6 == {Loop6, <<":", ":">>, <<"1", ":", ":">>, Hex6, Ones6(8)}

SplitHosts ==
  Addrs6 \cup
  {<<>>, TokHost, V4, Ones6(7), V4 \o Slash(32), Loop6 \o Slash(64),
   <<":", ":", "1", "]">>, <<"a", "\t", "b">>, <<"a", "\n", "b">>, <<":", "\n", ":">>}

PortTexts == {Port443, <<"8", "0">>, <<"4", "4", "3", "0", "0">>, <<"1">>}
PortSuffixes == {<<>>, <<":">>} \cup {<<":">> \o d : d \in PortTexts}

SplitInputs == {w \o x : w \in SplitHosts \cup {Bracketed(h) : h \in SplitHosts},
                         x \in PortSuffixes}

InitSplit ==
  /\ args \in {<<a>> : a \in SplitInputs}
  /\ concurrency = 0
  /\ defaultPorts = <<>>
  /\ verbose = FALSE
  /\ onlyValidDomainNames = FALSE
  /\ mainpc = "call"
  /\ argi = 1
  /\ item = NoItem
  /\ ips = NoProducer
  /\ chanInputClosed = FALSE
  /\ chanResultClosed = FALSE
  /\ wpc = <<>>
  /\ wres = <<>>
  /\ sinkpc = "recv"
  /\ panic = ""
  /\ pushedBy = <<EmptyBag>>
  /\ ungrabbed = EmptyBag
  /\ owed = EmptyBag
  /\ stray = FALSE
  /\ nResults = 0
  /\ failures = << <<>> >>
  /\ got = <<>>

\* the outcome of the call: the pair returned, or the panic
SplitOutcome(sp) ==
  IF sp.panic THEN [pc |-> "call", panic |-> "index out of range", got |-> <<>>]
  ELSE [pc |-> "done", panic |-> "", got |-> <<sp.host, sp.port>>]

\* gotHost, gotPort := splitHostPort(tt.args.addr)
CallSplit ==
  /\ Running /\ mainpc = "call"
  /\ mainpc' = SplitOutcome(splitHostPort(args[1])).pc
  /\ panic' = SplitOutcome(splitHostPort(args[1])).panic
  /\ got' = SplitOutcome(splitHostPort(args[1])).got
  /\ UNCHANGED <<flags, argi, item, ips, chanInputClosed, chanResultClosed, wpc, wres,
                 sinkpc, history>>

NextSplit == CallSplit

SpecSplit == InitSplit /\ [][NextSplit]_vars

\* ------------------------------------------------ isDomainName, run alone
Letters ==
  {"a", "b", "c", "d", "e", "f", "g", "h", "i", "j", "k", "l", "m",
   "n", "o", "p", "q", "r", "s", "t", "u", "v", "w", "x", "y", "z",
   "A", "B", "C", "D", "E", "F", "G", "H", "I", "J", "K", "L", "M",
   "N", "O", "P", "Q", "R", "S", "T", "U", "V", "W", "X", "Y", "Z"}

NameMax == 254
LabelMax == 63

\* a variant that lets a dash follow a dot
dashRejectedNever(last) == FALSE

\* case c == '-': the byte before a dash cannot be a dot
dashRejected(last) == last = "."

\* a variant that lets every dot pass
dotRejectedNever(last, partlen) == FALSE

\* case c == '.': the byte before a dot cannot be a dot or a dash, and the
\* label the dot ends is 1 to 63 bytes long
dotRejected(last, partlen) ==
  last = "." \/ last = "-" \/ partlen > LabelMax \/ partlen = 0

\* a variant that takes a dot at the end for a second label
nameAcceptedLoose(nonNumeric, parts, last) == nonNumeric /\ parts > 0

\* return nonNumeric && (parts > 1 || parts > 0 && last != '.')
nameAccepted(nonNumeric, parts, last) ==
  nonNumeric /\ (parts > 1 \/ (parts > 0 /\ last # "."))

\* The variables of the loop of isDomainName when it reaches byte i (1-based;
\* i = Len(s) + 1 is the end of the loop), none of the bytes before i having
\* made it return: last, partlen, parts and nonNumeric.
lastAt(s, i) == IF i = 1 THEN "." ELSE s[i - 1]

dotsBefore(s, i) == {j \in 1..(i - 1) : s[j] = "."}

partlenAt(s, i) ==
  IF dotsBefore(s, i) = {} THEN i - 1
  ELSE i - 1 - (CHOOSE j \in dotsBefore(s, i) : \A k \in dotsBefore(s, i) : k <= j)

partsAt(s, i) == Cardinality(dotsBefore(s, i))

nonNumericAt(s, i) == \E j \in 1..(i - 1) : s[j] \in Letters \cup {"-"}

\* the switch on byte i returns false
rejectedAt(s, i) ==
  IF s[i] \in Letters \cup Digits THEN FALSE
  ELSE IF s[i] = "-" THEN dashRejected(lastAt(s, i))
  ELSE IF s[i] = "." THEN dotRejected(lastAt(s, i), partlenAt(s, i))
  ELSE TRUE

\* what follows the loop, n bytes having passed
nameEnd(s, n) ==
  IF lastAt(s, n) = "-" \/ partlenAt(s, n) > LabelMax THEN FALSE
  ELSE nameAccepted(nonNumericAt(s, n), partsAt(s, n), lastAt(s, n))

isDomainName(s) ==
  IF Len(s) = 0 \/ Len(s) > NameMax \/ (Len(s) = NameMax /\ s[Len(s)] # ".")
    THEN FALSE
  ELSE IF \E i \in 1..Len(s) : rejectedAt(s, i) THEN FALSE
  ELSE nameEnd(s, Len(s) + 1)

\* Test_isDomainName: isDomainName is called on one string.
MaxLen == 4      \* the longest of the strings taken from NameChars

NameChars == {"a", "1", "-", ".", "_"}
ShortNames == UNION {[1..n -> NameChars] : n \in 0..MaxLen}

Dot == <<".">>
Test == <<"t", "e", "s", "t">>
Com == <<"c", "o", "m">>
One == <<"1">>

TableNames ==
  {Test \o Dot \o Com \o Dot \o <<"r", "u">>,
   Test \o <<"-", "1">> \o Dot \o Com,
   One \o Dot \o One \o Dot \o One \o Dot \o Com,
   Test \o Dot \o Com \o Dot,
   <<"1", "2", "7">> \o Dot \o <<"0">> \o Dot \o <<"0">> \o Dot \o One,
   Test,
   Test \o Dot,
   Test \o <<"_">> \o Test \o Dot \o Com,
   Dot \o Test,
   <<"*">> \o Dot \o Test \o Dot \o Com,
   Test \o <<"-">> \o Dot \o Com,
   <<"t", "e", "!", "s", "t">> \o Dot \o Com,
   <<"!">> \o Dot \o <<"d", "o", "t">> \o Dot \o Com}

\* a label of n bytes
Label(n) == [i \in 1..n |-> "a"]

\* names at the limits of the label and of the whole name
LongNames ==
  LET three == Label(LabelMax) \o Dot \o Label(LabelMax) \o Dot \o Label(LabelMax) \o Dot
  IN {Label(LabelMax) \o Dot \o Com,
      Label(LabelMax + 1) \o Dot \o Com,
      Com \o Dot \o Label(LabelMax + 1),
      three \o Label(NameMax - 1 - Len(three)),
      three \o Label(NameMax - 1 - Len(three)) \o Dot,
      three \o Label(NameMax - Len(three)),
      three \o Label(NameMax - Len(three)) \o Dot}

Names == ShortNames \cup TableNames \cup LongNames

InitDomain ==
  /\ args \in {<<a>> : a \in Names}
  /\ concurrency = 0
  /\ defaultPorts = <<>>
  /\ verbose = FALSE
  /\ onlyValidDomainNames = FALSE
  /\ mainpc = "call"
  /\ argi = 1
  /\ item = NoItem
  /\ ips = NoProducer
  /\ chanInputClosed = FALSE
  /\ chanResultClosed = FALSE
  /\ wpc = <<>>
  /\ wres = <<>>
  /\ sinkpc = "recv"
  /\ panic = ""
  /\ pushedBy = <<EmptyBag>>
  /\ ungrabbed = EmptyBag
  /\ owed = EmptyBag
  /\ stray = FALSE
  /\ nResults = 0
  /\ failures = << <<>> >>
  /\ got = <<>>

\* actual := isDomainName(c.host)
CallDomain ==
  /\ mainpc = "call"
  /\ mainpc' = "done"
  /\ got' = <<isDomainName(args[1])>>
  /\ UNCHANGED <<flags, argi, item, ips, chanInputClosed, chanResultClosed, wpc, wres,
                 sinkpc, panic, history>>

NextDomain == CallDomain

SpecDomain == InitDomain /\ [][NextDomain]_vars

\* ---------------------------------------------------- grabCert, run alone
\* a variant that keeps every name
keepsAll(name, only) == TRUE

\* onlyValidDomainNames && isDomainName(name) || !onlyValidDomainNames
keeps(name, only) == (only /\ isDomainName(name)) \/ ~only

\* the loop over cert.DNSNames: a name other than the common name is appended
\* when it is kept
RECURSIVE appendSANs(_, _, _, _)
appendSANs(names, dns, cn, only) ==
  IF dns = <<>> THEN names
  ELSE appendSANs(IF Head(dns) # cn /\ keeps(Head(dns), only)
                  THEN Append(names, Head(dns)) ELSE names,
                  Tail(dns), cn, only)

\* grabCert on what the dial came to: an error, or a connection whose first
\* certificate has the common name cn and the DNS names dns
grabCert(conn, only) ==
  IF conn.err # "nil" THEN [names |-> <<>>, err |-> conn.err]
  ELSE [names |-> appendSANs(IF keeps(conn.cn, only) THEN <<conn.cn>> ELSE <<>>,
                             conn.dns, conn.cn, only),
        err |-> "nil"]

MaxSANs == 2     \* the most DNS names of a certificate

\* names of certificates: a domain name, a single label, a wildcard, another
\* domain name, and the empty name of a certificate without a common name
Wildcard == <<"*", ".", "a", ".", "b">>
CertNames == {TokHost, <<"a">>, Wildcard, <<"b", ".", "a">>, <<>>}

\* what tls.DialWithDialer comes to
Conns ==
  {[err |-> "dial"]} \cup
  {[err |-> "nil", cn |-> cn, dns |-> dns] :
     cn \in CertNames, dns \in UNION {[1..n -> CertNames] : n \in 0..MaxSANs}}

InitGrab ==
  /\ args \in {<<c>> : c \in Conns}
  /\ concurrency = 0
  /\ defaultPorts = <<>>
  /\ verbose = FALSE
  /\ onlyValidDomainNames \in BOOLEAN
  /\ mainpc = "call"
  /\ argi = 1
  /\ item = NoItem
  /\ ips = NoProducer
  /\ chanInputClosed = FALSE
  /\ chanResultClosed = FALSE
  /\ wpc = <<>>
  /\ wres = <<>>
  /\ sinkpc = "recv"
  /\ panic = ""
  /\ pushedBy = <<EmptyBag>>
  /\ ungrabbed = EmptyBag
  /\ owed = EmptyBag
  /\ stray = FALSE
  /\ nResults = 0
  /\ failures = << <<>> >>
  /\ got = <<>>

\* result.names, result.err = grabCert(addr, dialer, onlyValidDomainNames)
CallGrab ==
  /\ mainpc = "call"
  /\ mainpc' = "done"
  /\ got' = <<grabCert(args[1], onlyValidDomainNames).names,
              grabCert(args[1], onlyValidDomainNames).err>>
  /\ UNCHANGED <<flags, argi, item, ips, chanInputClosed, chanResultClosed, wpc, wres,
                 sinkpc, panic, history>>

NextGrab == CallGrab

SpecGrab == InitGrab /\ [][NextGrab]_vars

\* ------------------------------------------- the result sink, run alone
\* fmt.Fprintf(os.Stderr, "%s -- %s\n", result.addr, result.err) and
\* fmt.Fprintf(os.Stdout, "%s -- %s\n", result.addr, result.names): one line
verboseOutput(result) ==
  IF result.err # "nil"
  THEN <<[fd |-> "stderr", line |-> <<result.addr, "--", result.err>>]>>
  ELSE <<[fd |-> "stdout", line |-> <<result.addr, "--", result.names>>]>>

\* a variant that reports without -v as with it
quietOutputLoud(result) == verboseOutput(result)

\* for _, name := range result.names { fmt.Fprintln(os.Stdout, name) }
quietOutput(result) ==
  [k \in 1..Len(result.names) |-> [fd |-> "stdout", line |-> result.names[k]]]

\* the body of the loop over chanResult
sinkOutput(v, result) == IF v THEN verboseOutput(result) ELSE quietOutput(result)

\* the procResult of a worker: &procResult{addr: addr}, then names and err of
\* grabCert
procResult(addr, grab) == [addr |-> addr, names |-> grab.names, err |-> grab.err]

MaxResults == 2  \* the most results of a run of the sink

\* the Targets of a block of two addresses
SinkAddrs == {JoinHostPort(IPv4String(Fields(k, Bits4)), Port443) : k \in 0..1}

\* what the fetches come to: no answer, a certificate with one name, with two,
\* with a wildcard only
SinkConns ==
  {[err |-> "dial"],
   [err |-> "nil", cn |-> TokHost, dns |-> <<>>],
   [err |-> "nil", cn |-> TokHost, dns |-> <<TokHost, <<"b", ".", "a">> >>],
   [err |-> "nil", cn |-> Wildcard, dns |-> <<>>]}

\* the results that come on chanResult: those of the workers, and the failure
\* of an expansion
SinkResults ==
  {procResult(a, grabCert(c, only)) : a \in SinkAddrs, c \in SinkConns, only \in BOOLEAN}
    \cup {[addr |-> TokBad4, names |-> <<>>, err |-> "parse"]}

InitSink ==
  /\ args \in UNION {[1..n -> SinkResults] : n \in 0..MaxResults}
  /\ concurrency = 0
  /\ defaultPorts = <<>>
  /\ verbose \in BOOLEAN
  /\ onlyValidDomainNames = FALSE
  /\ mainpc = "wait"
  /\ argi = 1
  /\ item = NoItem
  /\ ips = NoProducer
  /\ chanInputClosed = FALSE
  /\ chanResultClosed = FALSE
  /\ wpc = <<>>
  /\ wres = <<>>
  /\ sinkpc = "recv"
  /\ panic = ""
  /\ pushedBy = <<EmptyBag>>
  /\ ungrabbed = EmptyBag
  /\ owed = EmptyBag
  /\ stray = FALSE
  /\ nResults = 0
  /\ failures = << <<>> >>
  /\ got = <<>>

\* for result := range chanResult: one result is received and written out
SinkPrint ==
  /\ sinkpc = "recv" /\ ~chanResultClosed /\ argi <= Len(args)
  /\ got' = got \o sinkOutput(verbose, args[argi])
  /\ nResults' = CountUp(nResults)
  /\ argi' = argi + 1
  /\ UNCHANGED <<flags, mainpc, item, ips, chanInputClosed, chanResultClosed, wpc, wres,
                 sinkpc, panic, pushedBy, ungrabbed, owed, stray, failures>>

\* close(chanResult), the last result sent
ResultsEnd ==
  /\ ~chanResultClosed /\ argi > Len(args)
  /\ chanResultClosed' = TRUE
  /\ UNCHANGED <<flags, mainpc, argi, item, ips, chanInputClosed, wpc, wres, sinkpc, panic,
                 history, got>>

NextSink ==
  \/ SinkPrint
  \/ ResultsEnd
  \/ SinkExit

SpecSink == InitSink /\ [][NextSink]_vars

\* ------------------------------------------------------------- claims
\* the Targets the workers hold: received from chanInput, result not yet sent
Holding(w) == wpc[w] \in {"fetch", "send"}
HeldBy(a, pcs) == Cardinality({w \in Workers : wpc[w] \in pcs /\ wres[w].addr = a})
HeldAddrs == {wres[w].addr : w \in {v \in Workers : Holding(v)}}

\* C1: with one worker or more, every Target pushed onto the input channel gets
\* exactly one result with its addr at the sink: a Target whose result is not
\* yet delivered is held by exactly one worker, no result arrives that no pushed
\* Target accounts for, and once the result channel is closed none is missing.
C1_OneResultPerTarget ==
  concurrency >= 1 =>
    /\ ~stray
    /\ \A a \in DOMAIN owed \cup HeldAddrs : Count(owed, a) = HeldBy(a, {"fetch", "send"})
    /\ chanResultClosed => owed = EmptyBag

\* two workers hold a result each while earlier results are at the sink
C1_Witness ==
  /\ concurrency = 2
  /\ \A w \in Workers : wpc[w] = "send"
  /\ nResults >= 2

\* C3: with one worker or more, the result channel is closed only once the input
\* channel is closed and every worker has left its loop, and nobody sends on
\* the closed result channel.
C3_CloseOrder ==
  concurrency >= 1 =>
    /\ chanResultClosed => chanInputClosed /\ \A w \in Workers : wpc[w] = "done"
    /\ chanResultClosed => mainpc \in {"wait", "returned"}
    /\ panic # "send on closed channel"

\* the result channel is closed after workers and a failed expansion sent on it
C3_Witness ==
  /\ concurrency = 2
  /\ chanResultClosed
  /\ nResults >= 2
  /\ \E i \in 1..Len(args) : failures[i] # <<>>

\* C4: grabCert is called exactly once per pushed Target, whether it fails or
\* not: the Targets not yet tried are those of the workers about to call it,
\* and no call is made that no pushed Target accounts for.
C4_OneGrabPerTarget ==
  /\ ~stray
  /\ \A a \in DOMAIN ungrabbed \cup HeldAddrs : Count(ungrabbed, a) = HeldBy(a, {"fetch"})
  /\ \A w \in Workers : wpc[w] \in {"recv", "done"} => wres[w] = NoResult

\* a failed call is about to be reported while every pushed Target was tried
C4_Witness ==
  /\ \E w \in Workers : wpc[w] = "send" /\ wres[w].err = "dial"
  /\ ungrabbed = EmptyBag
  /\ nResults >= 1

\* what a RawSpec asks for, read off the RawSpec alone
HostOf(tok) == splitHostPort(TrimSpace(tok)).host
PortOf(tok) == splitHostPort(TrimSpace(tok)).port
Blank(tok) == TrimSpace(tok) = <<>>
FailsExpansion(tok) ==
  ~Blank(tok) /\ isCIDR(HostOf(tok)) /\ expandCIDR(HostOf(tok)).err # "nil"
AskedPorts(tok, dports) == IF PortOf(tok) = <<>> THEN dports ELSE <<PortOf(tok)>>

\* the addresses of the block of a CIDR literal that parses
BlockHosts(n) ==
  {IF n.bits = Bits4 THEN IPv4String(Fields(n.ip + k, Bits4))
                     ELSE IPv6String(Fields(n.ip + k, Bits6)) :
     k \in 0..(Pow2(n.bits - n.ones) - 1)}

AskedHosts(tok) ==
  IF Blank(tok) \/ FailsExpansion(tok) THEN {}
  ELSE IF isCIDR(HostOf(tok)) THEN BlockHosts(ParseCIDR(HostOf(tok)))
  ELSE {HostOf(tok)}

AskedTargets(tok, dports) ==
  {JoinHostPort(h, AskedPorts(tok, dports)[j]) :
     h \in AskedHosts(tok), j \in 1..Len(AskedPorts(tok, dports))}

\* the same for every RawSpec and ports list of the runs, worked out once
Asked ==
  [tok \in Tokens |-> [dports \in PortLists |->
    [trimmed |-> TrimSpace(tok),
     fails |-> FailsExpansion(tok),
     cause |-> IF FailsExpansion(tok) THEN expandCIDR(HostOf(tok)).err ELSE "nil",
     targets |-> AskedTargets(tok, dports),
     results |-> Cardinality(AskedHosts(tok)) * Len(AskedPorts(tok, dports))
                   + (IF FailsExpansion(tok) THEN 1 ELSE 0)]]]
AskedBy(i) == Asked[args[i]][defaultPorts]

\* C5 as stated: a RawSpec whose CIDR expansion fails gets exactly one failed
\* result whose addr is the RawSpec string as given and whose err is the cause,
\* and no Target of it is pushed.
C5_FailureCarriesRawSpec ==
  concurrency >= 1 =>
    \A i \in 1..Len(args) :
      AskedBy(i).fails =>
        /\ Len(failures[i]) <= 1
        /\ argi > i => Len(failures[i]) = 1
        /\ \A k \in 1..Len(failures[i]) :
             /\ failures[i][k].addr = args[i]
             /\ failures[i][k].err = AskedBy(i).cause
        /\ pushedBy[i] = EmptyBag

\* C5, amended: the addr of the failed result is the RawSpec with the white
\* space around it trimmed; the rest as stated.
C5_FailureCarriesTrimmed ==
  concurrency >= 1 =>
    \A i \in 1..Len(args) :
      AskedBy(i).fails =>
        /\ Len(failures[i]) <= 1
        /\ argi > i => Len(failures[i]) = 1
        /\ \A k \in 1..Len(failures[i]) :
             /\ failures[i][k].addr = AskedBy(i).trimmed
             /\ failures[i][k].err = AskedBy(i).cause
        /\ pushedBy[i] = EmptyBag

\* the failed result of a RawSpec given with spaces around it is at the sink
C5_Witness ==
  /\ concurrency >= 1
  /\ \E i \in 1..Len(args) :
       /\ args[i] = TokBad4
       /\ argi > i
       /\ Len(failures[i]) = 1
       /\ failures[i][1].addr # args[i]

\* a RawSpec is done with: all its Targets were pushed, its failure reported
DoneWith(i) ==
  /\ DOMAIN pushedBy[i] = AskedBy(i).targets
  /\ Len(failures[i]) = IF AskedBy(i).fails THEN 1 ELSE 0

\* C6: a failure never stops the run: with one worker or more the process never
\* panics, main goes on to the next RawSpec, the input channel is closed only
\* when every RawSpec, those after a failed one included, is done with, and at
\* the close of the result channel every pushed Target has its result.
C6_FailureIsLocal ==
  concurrency >= 1 =>
    /\ panic = ""
    /\ \A i \in 1..Len(args) : argi > i => DoneWith(i)
    /\ chanInputClosed => argi = Len(args) + 1
    /\ chanResultClosed => owed = EmptyBag

\* a run that met a failed expansion first is over, the Targets of the
\* RawSpec after it pushed and answered
C6_Witness ==
  /\ concurrency >= 1
  /\ Len(args) = 2
  /\ AskedBy(1).fails
  /\ pushedBy[2] # EmptyBag
  /\ chanResultClosed
  /\ nResults >= 2

\* the results the run is to deliver
AskedTotal ==
  LET RECURSIVE Sum(_)
      Sum(i) == IF i = 0 THEN 0 ELSE Sum(i - 1) + AskedBy(i).results
  IN Sum(Len(args))

\* a block of two addresses without a port, then a host with a port
ExampleArgs == <<TokNet4, TokHostPort>>

\* C7: when the result channel is closed the sink has received as many results
\* as the RawSpecs have addresses times applicable ports, plus one per failed
\* expansion; the example run gives five, of pairwise distinct addr.
C7_ResultCount ==
  concurrency >= 1 /\ chanResultClosed =>
    /\ nResults = AskedTotal
    /\ args = ExampleArgs =>
         /\ nResults = 5
         /\ \A i \in 1..2 : \A a \in DOMAIN pushedBy[i] : pushedBy[i][a] = 1
         /\ DOMAIN pushedBy[1] \cap DOMAIN pushedBy[2] = {}
         /\ Cardinality(DOMAIN pushedBy[1] \cup DOMAIN pushedBy[2]) = 5

\* the example run is over with the most workers
C7_Witness ==
  /\ args = ExampleArgs
  /\ concurrency = MaxConcurrency
  /\ sinkpc = "done"
  /\ nResults = 5

\* C8: every RawSpec has one Target pushed per concrete host and applicable
\* port (its own port, or every default port when it has none), each exactly
\* once, and no other Target.
C8_TargetsPerPort ==
  \A i \in 1..Len(args) :
    /\ \A a \in DOMAIN pushedBy[i] : a \in AskedBy(i).targets /\ pushedBy[i][a] = 1
    /\ argi > i => DOMAIN pushedBy[i] = AskedBy(i).targets

\* C8 away from the blocks that cover a whole address space
C8_TargetsPerPortProper ==
  ~HasWrap(args) => C8_TargetsPerPort

\* the run is over: both channels closed, workers and sink gone, main returned
Finished ==
  /\ chanInputClosed
  /\ \A w \in Workers : wpc[w] = "done"
  /\ chanResultClosed
  /\ sinkpc = "done"
  /\ mainpc = "returned"

\* C2: with one worker or more, under fair scheduling and grabCert calls that
\* return, every run over a finite list of RawSpecs ends: the input channel is
\* closed, the workers exit, the result channel is closed, the sink loop ends
\* and main returns.
C2_Terminates == <>(concurrency = 0 \/ Finished)

\* C2 away from the blocks that cover a whole address space
C2_TerminatesProper == <>(concurrency = 0 \/ HasWrap(args) \/ Finished)

\* the CIDR literal of a run of expandCIDR alone, and what the range over its
\* channel has come to
Net == ParseCIDR(args[1])
Ranged == mainpc \in {"drain", "broken", "drained"}
BlockSize == Pow2(Net.bits - Net.ones)
Distinct(q) == \A i, j \in 1..Len(q) : i # j => q[i] # q[j]
AddrWord(a) ==
  IF Net.bits = Bits4 THEN Word(ParseIPv4(a, Bits4, 1)) ELSE Word(ParseIPv6(a, Bits6, 1))
InBlock(a) == AddrWord(a) \div BlockSize = Net.ip \div BlockSize
SameUpperHalf(a) == AddrWord(a) \div Pow2(Half6) = Net.ip \div Pow2(Half6)

\* C9: for every IPv4 CIDR literal that parses, whatever its prefix length, the
\* addresses expandCIDR yields are pairwise distinct and in the block, there
\* are never more than the block holds, and the channel is closed after
\* exactly that many.
C9_ExpandIPv4 ==
  Ranged /\ Net.ok /\ Net.bits = Bits4 =>
    /\ Distinct(got)
    /\ \A k \in 1..Len(got) : InBlock(got[k])
    /\ Len(got) <= BlockSize
    /\ mainpc = "drained" => Len(got) = BlockSize

\* C9 for the prefix lengths from 1 on
C9_ExpandIPv4Proper ==
  Net.ok /\ Net.ones >= 1 => C9_ExpandIPv4

\* C10: for every IPv6 CIDR literal that parses, with a prefix length from half
\* the address width on, the addresses expandCIDR yields are pairwise distinct,
\* in the block and of the block's upper half, there are never more than the
\* block holds, and the channel is closed after exactly that many.
C10_ExpandIPv6 ==
  Ranged /\ Net.ok /\ Net.bits = Bits6 /\ Net.ones >= Half6 =>
    /\ Distinct(got)
    /\ \A k \in 1..Len(got) : InBlock(got[k]) /\ SameUpperHalf(got[k])
    /\ Len(got) <= BlockSize
    /\ mainpc = "drained" => Len(got) = BlockSize

\* C10 for the prefix lengths above half the address width
C10_ExpandIPv6Proper ==
  Net.ok /\ Net.ones > Half6 => C10_ExpandIPv6

\* the well-formed CIDR literals, by the way they are written: an address of
\* the family and a prefix length up to its width
Good4 == {IPv4String(f) \o Slash(p) : f \in Bit4s, p \in 0..Bits4}
Wide6 == {IPv6String(g) \o Slash(p) : g \in Bit6s, p \in 0..(Half6 - 1)}
Good6 == {IPv6String(g) \o Slash(p) : g \in Bit6s, p \in Half6..Bits6}

\* C11: expandCIDR returns an error, starts no producer and yields nothing for
\* a literal that is no well-formed CIDR and for an IPv6 CIDR with a prefix
\* length below half the address width; for every other well-formed CIDR it
\* returns a channel and no error.
C11_ErrorOrSequence ==
  mainpc # "call" =>
    IF args[1] \in Good4 \cup Good6
    THEN item.err = "nil" /\ ips.pc # "none" /\ mainpc # "failed"
    ELSE item.err # "nil" /\ ips = NoProducer /\ got = <<>> /\ mainpc = "failed"

\* a too wide IPv6 block was refused, with the error of the mask check
C11_Witness ==
  /\ args[1] \in Wide6
  /\ mainpc = "failed"
  /\ item.err = "range"

\* the text after the host of an input: nothing, or a colon and the port digits
Suffix(d) == IF d = <<>> THEN <<>> ELSE <<":">> \o d

\* the hosts of the inputs that the port expression matches
LineHosts == {h \in SplitHosts : ~Contains(h, "\n")}

\* C12: splitHostPort returns a pair for every string, control characters
\* and line breaks inside it included, and never panics; for the empty string
\* the pair is ("", "").
C12_Total ==
  /\ panic = ""
  /\ mainpc = "done" => Len(got) = 2
  /\ (mainpc = "done" /\ args[1] = <<>>) => got = << <<>>, <<>> >>

\* C13: for a well-formed IPv6 address A and a port P of digits,
\* splitHostPort("[A]:P") is (A, P), whatever the number of digits of P and
\* whether or not A:P is an IPv6 address itself.
C13_BracketedRoundTrip ==
  \A A \in Addrs6, P \in PortTexts :
    args[1] = Bracketed(A) \o Suffix(P) =>
      /\ ParseIPv6(A, 8, 65535) # FAIL
      /\ panic = ""
      /\ mainpc = "done" => got = <<A, P>>

\* [::1]:443 was split into ::1 and 443, although ::1:443 is an address
C13_Witness ==
  /\ args[1] = Bracketed(Loop6) \o Suffix(Port443)
  /\ ParseIPv6(Loop6 \o Suffix(Port443), 8, 65535) # FAIL
  /\ mainpc = "done"
  /\ got = <<Loop6, Port443>>

\* C14: for an input h:d without brackets and without a slash, where h holds
\* a colon and d is at most four digits, splitHostPort returns the whole input
\* and no port when the whole input is an IPv6 address, and (h, d) otherwise;
\* 1:1:1:1:1:1:1:1:80 is split, 1:1:1:1:1:1:1:80 and ::1:443 are kept whole.
C14_AmbiguousIPv6 ==
  /\ \A h \in LineHosts, d \in PortTexts :
       ( /\ args[1] = h \o Suffix(d)
         /\ Contains(h, ":") /\ ~Contains(h, "/") /\ Len(d) <= 4
         /\ mainpc = "done" ) =>
           got = IF ParseIPv6(args[1], 8, 65535) # FAIL
                 THEN <<args[1], <<>> >>
                 ELSE <<h, d>>
  /\ mainpc = "done" =>
       /\ args[1] = Ones6(8) \o <<":", "8", "0">> => got = <<Ones6(8), <<"8", "0">> >>
       /\ args[1] = Ones6(7) \o <<":", "8", "0">> => got = <<args[1], <<>> >>
       /\ args[1] = Loop6 \o Suffix(Port443) => got = <<args[1], <<>> >>

\* 1:1:1:1:1:1:1:80 was returned whole, with no port
C14_Witness ==
  /\ args[1] = Ones6(7) \o <<":", "8", "0">>
  /\ mainpc = "done"
  /\ got = <<args[1], <<>> >>

\* C15: a host in brackets, with or without a port after it, comes back
\* without the brackets and with the port, whatever is between the brackets,
\* a name or a dotted address without a colon included.
C15_StripsEveryBracket ==
  \A h \in LineHosts, d \in PortTexts \cup {<<>>} :
    (args[1] = Bracketed(h) \o Suffix(d) /\ mainpc = "done") => got = <<h, d>>

\* C15 as the code has it: the brackets are taken off only when a colon is
\* between them; a host in brackets without a colon comes back with its brackets
C15_StripsColonBracket ==
  \A h \in LineHosts, d \in PortTexts \cup {<<>>} :
    (args[1] = Bracketed(h) \o Suffix(d) /\ mainpc = "done") =>
      got = IF Contains(h, ":") THEN <<h, d>> ELSE <<Bracketed(h), d>>

\* [a.b]:443 came back with its brackets
C15_Witness ==
  /\ args[1] = Bracketed(TokHost) \o Suffix(Port443)
  /\ mainpc = "done"
  /\ got = <<Bracketed(TokHost), Port443>>

\* what a name is made of: letters, digits and the dash
LDH == Letters \cup Digits \cup {"-"}

\* a name without the one dot it may end with, and its labels
Body(s) == IF s # <<>> /\ s[Len(s)] = "." THEN SubSeq(s, 1, Len(s) - 1) ELSE s
Labels(s) == SplitOn(Body(s), ".")

GoodLabel(x) ==
  /\ Len(x) >= 1 /\ Len(x) <= LabelMax
  /\ x[1] # "-" /\ x[Len(x)] # "-"

GoodLabels(s) == \A k \in 1..Len(Labels(s)) : GoodLabel(Labels(s)[k])

LeadingDot(s) == s # <<>> /\ s[1] = "."
TrailingDot(s) == s # <<>> /\ s[Len(s)] = "."
DoubleDot(s) == \E i \in 1..(Len(s) - 1) : s[i] = "." /\ s[i + 1] = "."

Accepted == mainpc = "done" /\ got = <<TRUE>>
Rejected == mainpc = "done" /\ got = <<FALSE>>

\* C16: a string that isDomainName accepts is at most 254 bytes long, is made
\* of letters, digits, dashes and dots only, has no dot in front and no two
\* dots in a row, and each of its labels is 1 to 63 bytes long and neither
\* begins nor ends with a dash.
C16_AcceptedShape ==
  Accepted =>
    /\ Len(args[1]) <= NameMax
    /\ AllIn(args[1], LDH \cup {"."})
    /\ ~LeadingDot(args[1])
    /\ ~DoubleDot(args[1])
    /\ GoodLabels(args[1])

\* a name of 254 bytes, the last of them a dot, was accepted
C16_Witness ==
  /\ Accepted
  /\ Len(args[1]) = NameMax
  /\ Len(Labels(args[1])[1]) = LabelMax

\* C17: isDomainName is false for every string with a dot in front, a dot at
\* the end or two dots in a row.
C17_NoOuterDots ==
  (mainpc = "done" /\ (LeadingDot(args[1]) \/ TrailingDot(args[1]) \/ DoubleDot(args[1])))
    => got = <<FALSE>>

\* C17 as the code has it: false for every string with a dot in front or two
\* dots in a row; one dot at the end is allowed, test.com. is a domain name
C17_NoLeadingOrDoubleDots ==
  /\ (mainpc = "done" /\ (LeadingDot(args[1]) \/ DoubleDot(args[1]))) => got = <<FALSE>>
  /\ (mainpc = "done" /\ args[1] = Test \o Dot \o Com \o Dot) => got = <<TRUE>>

\* test.com. was accepted
C17_Witness ==
  /\ args[1] = Test \o Dot \o Com \o Dot
  /\ Accepted

\* the checks before the last line of isDomainName: the length, the
\* characters and the labels
PassesChecks(s) ==
  /\ s # <<>>
  /\ Len(s) < NameMax \/ (Len(s) = NameMax /\ TrailingDot(s))
  /\ AllIn(s, LDH \cup {"."})
  /\ GoodLabels(s)

TargetHost(t) ==
  LET h == SubSeq(t, 1, LastIndexOf(t, ":") - 1)
  IN IF Len(h) >= 2 /\ h[1] = "[" /\ h[Len(h)] = "]" /\ Contains(h, ":")
     THEN SubSeq(h, 2, Len(h) - 1)
     ELSE h

\* an address of one of the two families, at the sizes of the runs
IsAddress(h) == ParseIPv4(h, Bits4, 1) # FAIL \/ ParseIPv6(h, Bits6, 1) # FAIL

\* C19: no Target pushed onto the input channel has a slash in its host part;
\* a RawSpec with a slash is either expanded, each of its Targets having an
\* address for its host, or reported as a failure with no Target pushed,
\* blocks in brackets and IPv6 blocks with a port included.
C19_NoMaskInTargets ==
  /\ \A t \in DOMAIN pushedBy[1] :
       /\ ~Contains(TargetHost(t), "/")
       /\ Contains(args[1], "/") => IsAddress(TargetHost(t))
  /\ (Contains(args[1], "/") /\ failures[1] # <<>>) => pushedBy[1] = EmptyBag

\* the two addresses of an IPv6 block in brackets with a port were pushed
C19_Witness ==
  /\ args[1] = Bracketed(TokNet6) \o <<":">> \o Port8443
  /\ Cardinality(DOMAIN pushedBy[1]) = 2
  /\ \A t \in DOMAIN pushedBy[1] : IsAddress(TargetHost(t))

\* the number of Targets in a bag
RECURSIVE BagTotal(_)
BagTotal(b) ==
  IF DOMAIN b = {} THEN 0
  ELSE LET x == CHOOSE y \in DOMAIN b : TRUE
       IN b[x] + BagTotal([y \in DOMAIN b \ {x} |-> b[y]])

Fetching == {w \in Workers : wpc[w] = "fetch"}

\* C20: the Targets received from the input channel whose result is not yet
\* with the sink are never more than the concurrency level, each of them is
\* with a worker of its own, no more fetches than that run at a time, and a
\* push is only completed to a worker that was waiting for one.
C20_BoundedInFlight ==
  /\ BagTotal(owed) <= concurrency
  /\ BagTotal(owed) = Cardinality({w \in Workers : Holding(w)})
  /\ Cardinality(Fetching) <= concurrency
  /\ BagTotal(ungrabbed) = Cardinality(Fetching)

\* every worker holds a Target and main is blocked on its next push
C20_Witness ==
  /\ concurrency = MaxConcurrency
  /\ BagTotal(owed) = concurrency
  /\ mainpc = "push"
  /\ \A w \in Workers : Holding(w)

\* the number an address stands for, at the sizes of the runs
HostWord(h) ==
  IF Contains(h, ":") THEN Word(ParseIPv6(h, Bits6, 1)) ELSE Word(ParseIPv4(h, Bits4, 1))

\* worker w receives a Target in this step
Pushed(w) == wpc[w] = "recv" /\ wpc'[w] = "fetch"

\* the range over the addresses of a block hands the next address to the pushes
NextAddress == mainpc = "range" /\ mainpc' = "push"

\* the pushes of one address: its ports in the order of the list, then no
\* further push before the next address or RawSpec is taken
PortMinor ==
  \A w \in Workers :
    Pushed(w) =>
      /\ wres'[w].addr = JoinHostPort(item.host, item.ports[item.porti])
      /\ wres'[w].addr \in DOMAIN pushedBy'[argi]
      /\ IF item.porti < Len(item.ports)
         THEN mainpc' = "push" /\ item'.host = item.host /\ item'.porti = item.porti + 1
         ELSE mainpc' # "push"

\* the RawSpecs are taken in their order, one after the end of the other
SpecMajor == argi' >= argi /\ (argi' # argi => mainpc' = "args")

\* C21: within one block the Targets are pushed in increasing order of the
\* address, all ports of an address in the order of the port list before any
\* Target of the next address, and all Targets of a RawSpec before any of the
\* next RawSpec.
C21_PushOrder ==
  [][ /\ PortMinor
      /\ SpecMajor
      /\ NextAddress =>
           /\ item'.porti = 1
           /\ item.host # <<>> => HostWord(item'.host) > HostWord(item.host) ]_vars

\* C21 away from the blocks that cover a whole address space
C21_PushOrderProper ==
  [][ ~HasWrap(args) =>
      /\ PortMinor
      /\ SpecMajor
      /\ NextAddress =>
           /\ item'.porti = 1
           /\ item.host # <<>> => HostWord(item'.host) > HostWord(item.host) ]_vars

\* C22: the producer of expandCIDR is never more than one address ahead of its
\* consumer: its counter is the number of addresses received, the only address
\* worked out and not received is the one of that counter, waiting in the send,
\* and this holds for blocks of every size.
C22_DemandDriven ==
  ips.pc # "none" =>
    /\ ips.mask = Len(got) % Pow2(Width(ips.fam))
    /\ ips.pc = "send" => ips.val = Yield(ips)
    /\ ips.pc # "send" => ips.val = <<>>
    /\ ips.pc = "done" => mainpc \in {"drain", "drained"}

\* one address waits in the send, one was received, more are not worked out yet
C22_Witness ==
  /\ mainpc = "drain"
  /\ ips.pc = "send"
  /\ Len(got) = 1
  /\ ips.mask = 1
  /\ Net.ok /\ BlockSize >= 4

\* main takes up a RawSpec that is empty once trimmed, and is done with it
SkipsBlank ==
  /\ mainpc = "args" /\ argi <= Len(args)
  /\ AllIn(args[argi], Spaces)
  /\ argi' # argi

\* C23: a RawSpec that is empty or only white space is a no-op: main goes on to
\* the next RawSpec, no Target is pushed and no result sent for it, and the
\* channels, the workers, the sink and the port list are left as they were.
C23_BlankIsNoOp ==
  [][ /\ SkipsBlank =>
           /\ argi' = argi + 1
           /\ mainpc' = "args"
           /\ UNCHANGED <<flags, item, ips, chanInputClosed, chanResultClosed, wpc, wres,
                          sinkpc, panic, history, got>>
      /\ \A i \in 1..Len(args) :
           AllIn(args[i], Spaces) => pushedBy'[i] = EmptyBag /\ failures'[i] = <<>> ]_vars

\* a blank RawSpec was passed over while a worker held a Target of the one before
C23_Witness ==
  /\ Len(args) = 2 /\ AllIn(args[2], Spaces) /\ ~AllIn(args[1], Spaces)
  /\ argi = 3
  /\ mainpc = "args"
  /\ \E w \in Workers : Holding(w)
  /\ pushedBy[2] = EmptyBag /\ failures[2] = <<>>

\* the connection of a run of grabCert alone
Conn == args[1]

\* the common name and after it the DNS names that are not the common name
AllNames(conn) ==
  LET other(n) == n # conn.cn
  IN <<conn.cn>> \o SelectSeq(conn.dns, other)

\* C26: a fetch that succeeds gives the common name followed by the DNS names
\* of the certificate in their order, those equal to the common name left out;
\* with the filter on exactly the names of that list that isDomainName accepts
\* are kept, in the same order; a fetch that fails gives no names and its error.
C26_NamesOfCertificate ==
  mainpc = "done" =>
    IF Conn.err # "nil"
    THEN got = << <<>>, Conn.err >>
    ELSE /\ got[2] = "nil"
         /\ got[1] = IF onlyValidDomainNames
                     THEN SelectSeq(AllNames(Conn), isDomainName)
                     ELSE AllNames(Conn)

\* with the filter on, a wildcard common name and its repetition among the DNS
\* names were dropped and the one domain name kept
C26_Witness ==
  /\ mainpc = "done"
  /\ onlyValidDomainNames
  /\ Conn.err = "nil"
  /\ Conn.cn = Wildcard
  /\ Conn.dns = <<Wildcard, TokHost>>
  /\ got = << <<TokHost>>, "nil" >>

\* the names of the results up to the n-th whose fetch succeeded, one after
\* the other
RECURSIVE NamesOfGood(_, _)
NamesOfGood(results, n) ==
  IF n = 0 THEN <<>>
  ELSE NamesOfGood(results, n - 1)
         \o (IF results[n].err = "nil" THEN results[n].names ELSE <<>>)

\* C24: without -v the sink writes nothing for a failed result and each name
\* of a successful result on a line of its own on standard output, so that what
\* a run writes is the names of the Targets whose fetch succeeded and no more.
C24_QuietOutput ==
  ~verbose =>
    /\ Len(got) = Len(NamesOfGood(args, argi - 1))
    /\ \A k \in 1..Len(got) :
         got[k] = [fd |-> "stdout", line |-> NamesOfGood(args, argi - 1)[k]]

\* of the two addresses of a block one did not answer and one did: the names
\* of its certificate are all that was written
C24_Witness ==
  /\ ~verbose
  /\ sinkpc = "done"
  /\ Len(args) = 2
  /\ args[1].err = "dial" /\ args[2].err = "nil"
  /\ args[1].addr # args[2].addr
  /\ got = <<[fd |-> "stdout", line |-> TokHost],
             [fd |-> "stdout", line |-> <<"b", ".", "a">>]>>

\* C25: for an input h:d without brackets where h holds a colon and d is
\* digits, splitHostPort returns (h, d) when h holds a slash and when d has
\* more than four digits, whatever the whole input looks like: ::1/64:443 gives
\* ::1/64 and 443, ::1:44300 gives ::1 and 44300.
C25_SplitKept ==
  /\ \A h \in LineHosts, d \in PortTexts :
       ( /\ args[1] = h \o Suffix(d)
         /\ Contains(h, ":")
         /\ Contains(h, "/") \/ Len(d) > 4
         /\ mainpc = "done" ) => got = <<h, d>>
  /\ mainpc = "done" =>
       /\ args[1] = Loop6 \o Slash(64) \o Suffix(Port443) => got = <<Loop6 \o Slash(64), Port443>>
       /\ args[1] = Loop6 \o <<":", "4", "4", "3", "0", "0">> =>
            got = <<Loop6, <<"4", "4", "3", "0", "0">> >>

\* ::1/64:443 was split into ::1/64 and 443
C25_Witness ==
  /\ args[1] = Loop6 \o Slash(64) \o Suffix(Port443)
  /\ mainpc = "done"
  /\ got = <<Loop6 \o Slash(64), Port443>>

\* the input is a host with a colon in brackets, with or without a port: the
\* case in which splitHostPort takes brackets off
InBrackets ==
  \E h \in LineHosts, d \in PortTexts \cup {<<>>} :
    args[1] = Bracketed(h) \o Suffix(d) /\ Contains(h, ":")

\* C27: the port splitHostPort returns is empty or made of digits; when no
\* brackets were taken off, either there is a port and host, colon and port
\* make up the input, or there is none and the host is the input; a token that
\* ends in a colon with no digits after it comes back whole, without a port.
C27_Recomposes ==
  mainpc = "done" =>
    /\ AllIn(got[2], Digits)
    /\ ~InBrackets =>
         \/ got[2] # <<>> /\ got[1] \o <<":">> \o got[2] = args[1]
         \/ got[2] = <<>> /\ got[1] = args[1]
    /\ args[1] = TokHost \o <<":">> => got = <<args[1], <<>> >>

\* a.b: came back whole, without a port
C27_Witness ==
  /\ args[1] = TokHost \o <<":">>
  /\ mainpc = "done"
  /\ got = <<args[1], <<>> >>

\* the address written in a CIDR literal, as a number, and the lowest address
\* of the block it is in
LitWord == HostWord(SubSeq(args[1], 1, IndexOf(args[1], "/") - 1))
NetWord == (LitWord \div BlockSize) * BlockSize

\* C28: expandCIDR counts up from the network address of the block, not from
\* the address written in the literal: the k-th address it yields is the
\* network address plus k - 1, so that literals of one block yield the same
\* sequence, which begins with the network address and goes strictly upwards.
C28_FromNetwork ==
  Ranged /\ Net.ok =>
    \A k \in 1..Len(got) : HostWord(got[k]) = NetWord + (k - 1)

\* C28 away from the blocks that cover the whole range of the counter
C28_FromNetworkProper ==
  (Net.ok /\ Net.ones > (IF Net.bits = Bits4 THEN 0 ELSE Half6)) => C28_FromNetwork

\* a literal whose address is not the network address was expanded to its end
C28_ProperWitness ==
  /\ mainpc = "drained"
  /\ Net.ok /\ BlockSize >= 4
  /\ LitWord # NetWord
  /\ HostWord(got[1]) = NetWord

\* the consumer has left the range with addresses of the block still to come
StoppedEarly ==
  /\ mainpc = "broken"
  /\ Net.ok
  /\ Len(got) < BlockSize

\* C29: once the consumer has stopped receiving with the sequence not
\* exhausted, the producer never closes the channel and never ends; when it has
\* built its next address it waits in the send, and nothing can happen any more.
C29_ProducerBlocked ==
  StoppedEarly =>
    /\ ips.pc \in {"loop", "send"}
    /\ ips.pc = "send" => ~ENABLED NextStop

\* the consumer left after one address of a block of four or more, and the
\* producer waits in the send of the second
C29_Witness ==
  /\ StoppedEarly
  /\ Len(got) = 1 /\ BlockSize >= 4
  /\ ips.pc = "send"
  /\ ips.val # <<>>

\* inside the pipeline a producer that lives has its consumer in the range
C29_PipelineDrains ==
  ips.pc \in {"loop", "send", "done"} => mainpc \in {"range", "push"}

\* the RawSpec at position i gives one Target or more
ProducesTarget(i) == AskedBy(i).targets # {}

\* no worker is started, and some RawSpec of the run gives a Target
NoWorkerForTargets ==
  /\ concurrency = 0
  /\ \E i \in 1..Len(args) : ProducesTarget(i)

\* no send on the input channel has completed, the channel is open, main has
\* not come to its end, and at the push main has no step
StuckBeforeFirstPush ==
  /\ \A i \in 1..Len(args) : pushedBy[i] = EmptyBag
  /\ ungrabbed = EmptyBag /\ owed = EmptyBag
  /\ ~chanInputClosed
  /\ mainpc \notin {"wait", "returned"}
  /\ mainpc = "push" =>
       /\ ProducesTarget(argi)
       /\ \A j \in 1..(argi - 1) : ~ProducesTarget(j)
       /\ ~ENABLED (\E w \in Workers : MainPush(w))

\* C30 as stated: with concurrency 0 and a RawSpec that gives a Target, the
\* expander blocks for ever on its first push: the process does not end in any
\* other way, the input channel is never closed and main never returns.
C30_BlocksOnFirstPush ==
  NoWorkerForTargets =>
    /\ panic = ""
    /\ StuckBeforeFirstPush

\* C30: with concurrency 0 and a RawSpec that gives a Target, no push ever
\* completes, the input channel is never closed and main never returns; main
\* waits for ever in its first push, unless a RawSpec before it fails its CIDR
\* expansion and main panics sending the failure on the result channel, which
\* the closer has closed because there is no worker to wait for.
C30_NeverPastFirstPush ==
  NoWorkerForTargets =>
    /\ StuckBeforeFirstPush
    /\ panic # "" =>
         /\ panic = "send on closed channel"
         /\ mainpc = "fail" /\ chanResultClosed
         /\ AskedBy(argi).fails
         /\ \A j \in 1..argi : ~ProducesTarget(j)

\* main waits in its first push, after a failure that the sink took, with the
\* result channel closed and the sink gone: nothing is left to receive
C30_Witness ==
  /\ NoWorkerForTargets
  /\ mainpc = "push" /\ argi = 2
  /\ AskedBy(1).fails /\ Len(failures[1]) = 1
  /\ chanResultClosed /\ sinkpc = "done"
  /\ panic = ""

=============================================================================
